---- MODULE Spec2Model ----
(***************************************************************************)
(* LoDis Signal Processor Flasher (src/main.py).                           *)
(*                                                                         *)
(* The model has four threads of control:                                  *)
(*   - the GUI thread, which runs every slot of ESPFlasherApp to its end,  *)
(*     with three exceptions: configure talks to the serial device and to  *)
(*     esptool step by step (its position is cfg_pc), closeEvent waits for *)
(*     the other threads (close_pc), and the message boxes of configure    *)
(*     and of on_flash_finished run a nested event loop that delivers      *)
(*     queued signals before the slot goes on (fin_pc);                    *)
(*   - one QThread per EsptoolWorker, running esptool.main on the          *)
(*     write_flash argument list;                                          *)
(*   - the QThread of PortMonitor, which polls the OS port enumeration     *)
(*     once a second until stop() has been called;                         *)
(*   - the environment: the OS port enumeration, the bin directory on      *)
(*     disk, the serial device and esptool itself.                         *)
(*                                                                         *)
(* Strings that the code takes apart or searches are sequences of tokens:  *)
(* a combo box text "COM1 - USB Serial" is <<"COM1", " - ", "USB Serial">>,*)
(* a file name "bootloader.bin" is <<"bootloader", ".bin">>.               *)
(***************************************************************************)
EXTENDS Integers, Sequences, FiniteSets, TLC

VARIABLES
    os_ports,               \* what serial.tools.list_ports.comports() returns now
    disk,                   \* BIN_DIR: version name -> Absent | NotDir | listing
    port_items,             \* port_combo items
    port_sel,               \* port_combo.currentText()
    version_items,          \* version_combo items
    version_sel,            \* version_combo.currentText()
    current_version_files,  \* self.current_version_files (insertion-ordered dict)
    flash_button_enabled,   \* self.flash_button.isEnabled()
    status_label,           \* self.status_label.text()
    flash_error,            \* QMessageBox.critical shown by the last flash_esp32 call
    jobs,                   \* the EsptoolWorkers not yet deleted, oldest first
    gui_queue,              \* queued signals waiting for the GUI thread
    cfg_pc,                 \* position of the GUI thread inside configure
    cfg_port,               \* configure's local `port`
    cfg_input,              \* configure's locals `id` and `name`
    ser,                    \* configure's local `ser`: "none" | "open" | "closed"
    cfg_timeout,            \* some readline of this configure call timed out
    cfg_trace,              \* device operations of this configure call, in order
    cfg_dialogs,            \* message boxes this configure call has shown
    mon_pc,                 \* position of the monitor thread inside PortMonitor.run
    mon_running,            \* PortMonitor._running
    previous_ports,         \* PortMonitor._previous_ports
    mon_last,               \* how the last comports() call of the monitor ended
    mon_seen,               \* what the last successful comports() call returned
    mon_after_stop,         \* polls begun and signals emitted since stop()
    close_pc,               \* position of the GUI thread inside closeEvent
    fin_pc                  \* "box" while the message box of on_flash_finished is open

vars == <<os_ports, disk, port_items, port_sel, version_items, version_sel,
          current_version_files, flash_button_enabled, status_label,
          flash_error, jobs, gui_queue, cfg_pc, cfg_port, cfg_input, ser,
          cfg_timeout, cfg_trace, cfg_dialogs, mon_pc, mon_running,
          previous_ports, mon_last, mon_seen, mon_after_stop, close_pc,
          fin_pc>>

envVars  == <<os_ports, disk>>
portVars == <<port_items, port_sel>>
versVars == <<version_items, version_sel, current_version_files>>
jobVars  == <<flash_button_enabled, status_label, flash_error, jobs, gui_queue>>
cfgVars  == <<cfg_pc, cfg_port, cfg_input, ser, cfg_timeout, cfg_trace,
             cfg_dialogs>>
monVars  == <<mon_pc, mon_running, previous_ports, mon_last, mon_seen,
             mon_after_stop>>
threadVars == <<monVars, close_pc, fin_pc>>

----------------------------------------------------------------------------
(* Bounds *)

\* EsptoolWorkers alive at the same time
MaxJobs == 2

\* entries in one version directory
MaxFiles == 4

\* entries in the version directories of the scan specification
MaxScan == 3

\* output signals one EsptoolWorker emits while esptool.main runs
MaxLines == 2

\* writes that reach the emitter of an EsptoolWorker after its run has
\* restored sys.stdout (a print is one write per argument, separator and end)
MaxLate == 2

\* ports_changed signals waiting for the GUI thread
MaxPending == 2

----------------------------------------------------------------------------
(* Sequences *)

Range(s) == {s[i] : i \in 1..Len(s)}

IsPrefix(s, t) == Len(s) <= Len(t) /\ \A i \in 1..Len(s) : s[i] = t[i]

\* all sequences over S of length <= n without repeated elements
RECURSIVE DistinctSeqs(_, _)
DistinctSeqs(S, n) ==
    IF n = 0 THEN {<<>>}
    ELSE LET shorter == DistinctSeqs(S, n - 1)
         IN  shorter \cup
             UNION {{Append(s, x) : x \in S \ Range(s)} : s \in shorter}

----------------------------------------------------------------------------
(* The environment: serial ports the OS can report *)

SEP == " - "

\* ListPortInfo objects: device and description (a description may itself
\* hold the separator)
PortInfos ==
    { [device |-> "COM1", description |-> <<"USB Serial">>],
      [device |-> "COM2", description |-> <<"CP2102", SEP, "UART Bridge">>] }

NoText == <<>>

\* f"{port.device} - {port.description}"
PortText(p) == <<p.device, SEP>> \o p.description

\* serial.tools.list_ports.comports(): the ports connected, in an order the
\* library does not promise
Comports(ports) ==
    {o \in DistinctSeqs(ports, Cardinality(ports)) : Len(o) = Cardinality(ports)}

\* [f"{port.device} - {port.description}" for port in ports], for one result
\* of comports()
PortList(listed) == [i \in 1..Len(listed) |-> PortText(listed[i])]

\* the same devices can be reported under another description: COM1 after
\* its driver has been replaced
MonitorPortInfos ==
    PortInfos \cup {[device |-> "COM1", description |-> <<"CH340">>]}

\* what comports() can return: every device is listed once
PortSets ==
    { ports \in SUBSET MonitorPortInfos :
        \A p, q \in ports : p.device = q.device => p = q }

\* set(p.device for p in serial.tools.list_ports.comports())
Devices(ports) == {p.device : p \in ports}

\* selected_port_desc.split(' - ')[0]
RECURSIVE SplitFirst(_)
SplitFirst(text) ==
    IF text = <<>> \/ Head(text) = SEP THEN <<>>
    ELSE <<Head(text)>> \o SplitFirst(Tail(text))

\* QComboBox after clear(); addItems(items); setCurrentText(previous) when
\* previous is among the items: an emptied combo box that receives items
\* makes the first one current
ComboAfterRefill(items, previous, none) ==
    IF \E i \in 1..Len(items) : items[i] = previous THEN previous
    ELSE IF Len(items) > 0 THEN items[1]
    ELSE none

----------------------------------------------------------------------------
(* The environment: the bin directory *)

\* what a name under BIN_DIR can be: nothing, a regular file, or a folder
\* with the entries os.listdir returns, in the order it returns them
Absent == [kind |-> "absent", entries |-> <<>>]
NotDir == [kind |-> "file", entries |-> <<>>]
Dir(listing) == [kind |-> "dir", entries |-> listing]

\* names of the entries BIN_DIR can hold, in sorted() order
VersionOrder == <<"v1", "v2">>
Versions == Range(VersionOrder)
NoVersion == ""

\* directory entries a version folder can hold
BootloaderBin == [name |-> <<"bootloader", ".bin">>, isfile |-> TRUE]
PartitionBin  == [name |-> <<"partition", "-table", ".bin">>, isfile |-> TRUE]
BootApp0Bin   == [name |-> <<"boot_app0", ".bin">>, isfile |-> TRUE]
FirmwareBin   == [name |-> <<"firmware", ".bin">>, isfile |-> TRUE]
Entries == {BootloaderBin, PartitionBin, BootApp0Bin, FirmwareBin}

\* every result of os.listdir(version_dir): the entries in any order
Listings == DistinctSeqs(Entries, MaxFiles)

\* further entries: a name that holds two of the substrings, in upper case;
\* a second application image; an upper-case extension; a name with a
\* substring but another extension; a sub-directory named like an image
MixedCaseBin  == [name |-> <<"Partition", "_", "BOOTLOADER", ".bin">>, isfile |-> TRUE]
SecondAppBin  == [name |-> <<"app_v2", ".bin">>, isfile |-> TRUE]
UpperExtFile  == [name |-> <<"firmware", ".BIN">>, isfile |-> TRUE]
BootloaderTxt == [name |-> <<"bootloader", ".txt">>, isfile |-> TRUE]
BackupDir     == [name |-> <<"backup", ".bin">>, isfile |-> FALSE]
ScanEntries ==
    Entries \cup {MixedCaseBin, SecondAppBin, UpperExtFile, BootloaderTxt, BackupDir}

IsDir(d) == d.kind = "dir"

\* str.lower() on one token
Lower(tok) ==
    CASE tok = "BOOTLOADER" -> "bootloader"
      [] tok = "Partition"  -> "partition"
      [] tok = "Boot_App0"  -> "boot_app0"
      [] tok = ".BIN"       -> ".bin"
      [] OTHER              -> tok

LowerName(name) == [i \in 1..Len(name) |-> Lower(name[i])]

\* `sub in name` / name.endswith(sub), on tokens
Contains(name, sub) == \E i \in 1..Len(name) : name[i] = sub
EndsWith(name, sub) == Len(name) > 0 /\ name[Len(name)] = sub

\* os.path.join(version_dir, filename)
BIN_DIR == <<"bin">>
FilePath(version, filename) == BIN_DIR \o <<"/", version, "/">> \o filename

\* os.path.basename, for reading a path back
RECURSIVE Basename(_)
Basename(path) ==
    IF \A i \in 1..Len(path) : path[i] # "/" THEN path ELSE Basename(Tail(path))

\* variant: a key that is present keeps its value
Put_KeepFirst(d, k, v) ==
    IF \E i \in 1..Len(d) : d[i].key = k THEN d
    ELSE Append(d, [key |-> k, value |-> v])

\* Python dict, insertion-ordered: a sequence of key/value pairs, keys unique
Keys(d) == {d[i].key : i \in 1..Len(d)}
Has(d, k) == k \in Keys(d)
Get(d, k) == d[CHOOSE i \in 1..Len(d) : d[i].key = k].value
Put(d, k, v) ==
    IF Has(d, k)
    THEN [i \in 1..Len(d) |-> IF d[i].key = k THEN [key |-> k, value |-> v] ELSE d[i]]
    ELSE Append(d, [key |-> k, value |-> v])

\* variant: the partition test comes first
RoleKey_PartitionFirst(filename) ==
    IF Contains(LowerName(filename), "partition") THEN "partition"
    ELSE IF Contains(LowerName(filename), "bootloader") THEN "bootloader"
    ELSE IF Contains(LowerName(filename), "boot_app0") THEN "ota_data"
    ELSE "app"

\* the if/elif chain of on_version_changed: the key a .bin file is stored under
RoleKey(filename) ==
    IF Contains(LowerName(filename), "bootloader") THEN "bootloader"
    ELSE IF Contains(LowerName(filename), "partition") THEN "partition"
    ELSE IF Contains(LowerName(filename), "boot_app0") THEN "ota_data"
    ELSE "app"

\* the scan loop of on_version_changed over the first n entries of a listing
RECURSIVE ScanFiles(_, _, _)
ScanFiles(version, listing, n) ==
    IF n = 0 THEN <<>>
    ELSE LET found == ScanFiles(version, listing, n - 1)
             e     == listing[n]
         IN  IF e.isfile /\ EndsWith(e.name, ".bin")
             THEN Put(found, RoleKey(e.name), FilePath(version, e.name))
             ELSE found

\* on_version_changed(version): the value self.current_version_files gets
ResolveFiles(d, version) ==
    IF version = NoVersion THEN <<>>
    ELSE IF version \notin DOMAIN d \/ d[version].kind = "absent" THEN <<>>
    ELSE IF d[version].kind = "file" THEN <<>>
    ELSE ScanFiles(version, d[version].entries, Len(d[version].entries))

\* versions of refresh_versions: the sorted entries of BIN_DIR that are folders
ListVersions(d) == SelectSeq(VersionOrder, LAMBDA v : IsDir(d[v]))

\* the disks of the session specification: folder v2 holds only the
\* application image; folder v1 is missing, holds only the application
\* image, or holds all four images
SessionDirStates ==
    { Absent, Dir(<<FirmwareBin>>),
      Dir(<<FirmwareBin, BootApp0Bin, PartitionBin, BootloaderBin>>) }
SessionDisks ==
    { d \in [Versions -> SessionDirStates] : d["v2"] = Dir(<<FirmwareBin>>) }

\* the disks of the catalogue specification: any folders, holding at most
\* MaxFiles entries between them
DirStates == {Absent, NotDir} \cup {Dir(l) : l \in Listings}
CatalogDisks ==
    { d \in [Versions -> DirStates] :
        Len(d["v1"].entries) + Len(d["v2"].entries) <= MaxFiles }

\* the disks of the scan specification: any folders over ScanEntries,
\* holding at most MaxScan entries between them (a predicate, so that the
\* disks are enumerated one by one)
ScanDirStates(n) == {Absent, NotDir} \cup {Dir(l) : l \in DistinctSeqs(ScanEntries, n)}
IsScanDisk(d) ==
    LET states == [n \in 0..MaxScan |-> ScanDirStates(n)]
    IN  \E a \in states[MaxScan] :
            \E b \in states[MaxScan - Len(a.entries)] :
                d = [v \in Versions |-> IF v = "v1" THEN a ELSE b]

----------------------------------------------------------------------------
(* refresh_ports and refresh_versions *)

\* refresh_ports: the items and the current text of port_combo afterwards
RefreshedPorts(listed, sel) ==
    LET items == PortList(listed)
    IN  [items |-> items, sel |-> ComboAfterRefill(items, sel, NoText)]

\* refresh_versions: clear(), addItems() and setCurrentText() each emit
\* currentTextChanged when the current text changes, and every emission runs
\* on_version_changed; the last one decides current_version_files
RefreshedVersions(d, sel, files) ==
    LET items   == ListVersions(d)
        cleared == IF sel # NoVersion THEN <<NoVersion>> ELSE <<>>
        added   == IF Len(items) > 0 THEN <<items[1]>> ELSE <<>>
        kept    == IF sel \in Range(items) /\ sel # items[1] THEN <<sel>> ELSE <<>>
        emitted == cleared \o added \o kept
    IN  [items |-> items,
         sel   |-> ComboAfterRefill(items, sel, NoVersion),
         files |-> IF emitted = <<>> THEN files
                   ELSE ResolveFiles(d, emitted[Len(emitted)])]

----------------------------------------------------------------------------
(* Message boxes *)

NoDialog == [icon |-> "none", text |-> "", names |-> <<>>]
Critical(text, names) == [icon |-> "critical", text |-> text, names |-> names]
Information(text) == [icon |-> "information", text |-> text, names |-> <<>>]

----------------------------------------------------------------------------
(* esptool *)

\* how a call of esptool.main can end
ToolOutcomes ==
    { [kind |-> "exit", code |-> 0],       \* sys.exit(0)
      [kind |-> "exit", code |-> 2],       \* sys.exit(2)
      [kind |-> "exit_none", code |-> 0],  \* sys.exit()
      [kind |-> "return", code |-> 0],     \* main returns
      [kind |-> "raise", code |-> 0] }     \* any other exception

\* EsptoolWorker.run: the exit code it emits for an outcome
WorkerExitCode(o) ==
    CASE o.kind = "exit"      -> o.code
      [] o.kind = "exit_none" -> 0
      [] o.kind = "raise"     -> 1
      [] OTHER                -> 0

\* a Python string that is taken apart nowhere
S(str) == <<str>>

required_files == <<"bootloader", "partition", "ota_data", "app">>

\* esptool_args of flash_esp32 up to the address/file pairs
FlashOptions(port) ==
    << S("--chip"), S("esp32s3"),
       S("--port"), port,
       S("--baud"), S("115200"),
       S("--before"), S("default-reset"),
       S("--after"), S("hard-reset"),
       S("write_flash"),
       S("--flash-mode"), S("keep"),
       S("--flash-freq"), S("keep"),
       S("--flash-size"), S("keep"),
       S("-z") >>

\* variant: the pairs take the files in the order the dict stores them
FlashArgs_StoredOrder(port, files) ==
    FlashOptions(port) \o
    << S("0x0"), files[1].value,
       S("0x8000"), files[2].value,
       S("0xe000"), files[3].value,
       S("0x10000"), files[4].value >>

\* esptool_args of flash_esp32
FlashArgs(port, files) ==
    FlashOptions(port) \o
    << S("0x0"), Get(files, "bootloader"),
       S("0x8000"), Get(files, "partition"),
       S("0xe000"), Get(files, "ota_data"),
       S("0x10000"), Get(files, "app") >>

\* esptool_args of configure
ChipIdArgs(port) ==
    << S("--chip"), S("esp32s3"),
       S("--port"), port,
       S("--baud"), S("115200"),
       S("--after"), S("hard-reset"),
       S("chip-id") >>

----------------------------------------------------------------------------
(* The state after ESPFlasherApp.__init__ *)

\* PortMonitor.__init__ and start_port_monitor: the monitor thread is about
\* to test _running for the first time; the window is open
InitThreads ==
    /\ mon_pc = "test"
    /\ mon_running = TRUE
    /\ previous_ports = {}
    /\ mon_last = "none"
    /\ mon_seen = {}
    /\ mon_after_stop = [cycles |-> 0, polls |-> 0, emits |-> 0]
    /\ close_pc = "none"
    /\ fin_pc = "none"

\* create_widgets ends with on_version_changed("1.0.0"); refresh_versions and
\* refresh_ports then fill the two combo boxes
InitGui ==
    /\ LET v == RefreshedVersions(disk, NoVersion, ResolveFiles(disk, "1.0.0"))
       IN  /\ version_items = v.items
           /\ version_sel = v.sel
           /\ current_version_files = v.files
    /\ \E listed \in Comports(os_ports) :
          LET p == RefreshedPorts(listed, NoText)
          IN  /\ port_items = p.items
              /\ port_sel = p.sel
    /\ flash_button_enabled = TRUE
    /\ status_label = "Ready"
    /\ flash_error = NoDialog
    /\ jobs = <<>>
    /\ gui_queue = <<>>
    /\ cfg_pc = "idle"
    /\ cfg_port = NoText
    /\ cfg_input = [id |-> "", name |-> ""]
    /\ ser = "none"
    /\ cfg_timeout = FALSE
    /\ cfg_trace = <<>>
    /\ cfg_dialogs = <<>>
    /\ InitThreads

Init ==
    /\ os_ports \in SUBSET PortInfos
    /\ disk \in SessionDisks
    /\ InitGui

\* configure has shown a message box and waits for the user to close it
ConfigureBoxOpen == cfg_pc = "return" /\ cfg_dialogs # <<>>

\* the GUI thread is in an event loop and delivers queued signals: the loop
\* of app.exec() (before closeEvent, or after it has returned) or the loop of
\* a modal message box; it is not inside a device operation of configure nor
\* inside a wait() of closeEvent
EventLoopRuns ==
    /\ close_pc \in {"none", "closed"}
    /\ cfg_pc = "idle" \/ ConfigureBoxOpen

\* the main window takes the user's input: the GUI thread is in the loop of
\* app.exec(), no modal message box is open and the window is not closed
GuiIdle == cfg_pc = "idle" /\ fin_pc = "none" /\ close_pc = "none"

----------------------------------------------------------------------------
(* The environment *)

\* a device is plugged in or removed
PortsChange ==
    /\ \E p \in PortInfos :
          os_ports' = IF p \in os_ports THEN os_ports \ {p} ELSE os_ports \cup {p}
    /\ UNCHANGED <<disk, portVars, versVars, jobVars, cfgVars>>
    /\ UNCHANGED threadVars

\* a version folder is created, removed or refilled
DiskChange ==
    /\ \E d \in SessionDisks :
          /\ d # disk
          /\ disk' = d
    /\ UNCHANGED <<os_ports, portVars, versVars, jobVars, cfgVars>>
    /\ UNCHANGED threadVars

----------------------------------------------------------------------------
(* Selection *)

\* the Refresh button of step 1 (and the ports_changed signal)
refresh_ports ==
    /\ GuiIdle
    /\ \E listed \in Comports(os_ports) :
          LET p == RefreshedPorts(listed, port_sel)
          IN  /\ port_items' = p.items
              /\ port_sel' = p.sel
    /\ UNCHANGED <<envVars, versVars, jobVars, cfgVars>>
    /\ UNCHANGED threadVars

\* the Refresh button of step 2
refresh_versions ==
    /\ GuiIdle
    /\ LET v == RefreshedVersions(disk, version_sel, current_version_files)
       IN  /\ version_items' = v.items
           /\ version_sel' = v.sel
           /\ current_version_files' = v.files
    /\ UNCHANGED <<envVars, portVars, jobVars, cfgVars>>
    /\ UNCHANGED threadVars

\* the user picks another item of port_combo
select_port ==
    /\ GuiIdle
    /\ \E t \in Range(port_items) :
          /\ t # port_sel
          /\ port_sel' = t
    /\ UNCHANGED <<envVars, port_items, versVars, jobVars, cfgVars>>
    /\ UNCHANGED threadVars

\* the user picks another item of version_combo: currentTextChanged runs
\* on_version_changed
on_version_changed ==
    /\ GuiIdle
    /\ \E v \in Range(version_items) :
          /\ v # version_sel
          /\ version_sel' = v
          /\ current_version_files' = ResolveFiles(disk, v)
    /\ UNCHANGED <<envVars, portVars, version_items, jobVars, cfgVars>>
    /\ UNCHANGED threadVars

----------------------------------------------------------------------------
(* Flashing *)

Running(j) == j.status = "Running"
RunningJobs == {i \in 1..Len(jobs) : Running(jobs[i])}
FlashRunning == RunningJobs # {}

\* esptool.main has not ended yet
NoOutcome == [kind |-> "none", code |-> 0]

\* an EsptoolWorker on its thread: emitted is what it has emitted so far, in
\* order; outcome is how its esptool.main call ended; stop_requested tells
\* whether stop() has been called on it; late_writer tells that run ended
\* while the GUI thread was inside the esptool.main call of configure, which
\* prints to sys.stdout, the emitter of this worker until then
NewJob(args) ==
    [args |-> args, status |-> "Running", exit_code |-> 0, emitted |-> <<>>,
     outcome |-> NoOutcome, stop_requested |-> FALSE, late_writer |-> FALSE]

\* variant: the port is left out of the first validation
NothingToFlash_NoPortCheck ==
    version_sel = NoVersion \/ current_version_files = <<>>

\* line 362: the first validation of flash_esp32
NothingToFlash ==
    port_sel = NoText \/ version_sel = NoVersion \/ current_version_files = <<>>

\* line 368: the required files current_version_files lacks
missing_files ==
    SelectSeq(required_files, LAMBDA f : ~Has(current_version_files, f))

\* variant: the button stays enabled
FlashButtonWhileFlashing_Enabled == TRUE

\* line 373: flash_button.setEnabled(False)
FlashButtonWhileFlashing == FALSE

\* the Flash ESP32 button: clicked reaches the slot only while the button is
\* enabled
flash_esp32 ==
    /\ GuiIdle
    /\ flash_button_enabled
    /\ Len(jobs) < MaxJobs
    /\ IF NothingToFlash
       THEN /\ flash_error' = Critical("select port and version", <<>>)
            /\ UNCHANGED <<flash_button_enabled, status_label, jobs>>
       ELSE IF missing_files # <<>>
       THEN /\ flash_error' = Critical("missing required files", missing_files)
            /\ UNCHANGED <<flash_button_enabled, status_label, jobs>>
       ELSE /\ flash_error' = NoDialog
            /\ flash_button_enabled' = FlashButtonWhileFlashing
            /\ status_label' = "Flashing in progress..."
            /\ jobs' = Append(jobs,
                   NewJob(FlashArgs(SplitFirst(port_sel), current_version_files)))
    /\ UNCHANGED <<envVars, portVars, versVars, gui_queue, cfgVars>>
    /\ UNCHANGED threadVars

Signal(name, arg) == [signal |-> name, arg |-> arg]

\* the output signals a worker has emitted
OutputCount(j) == Len(SelectSeq(j.emitted, LAMBDA e : e.signal = "output"))

\* the output signals of j that follow its finished signal
LateOutputCount(j) ==
    Cardinality({k \in 1..Len(j.emitted) :
                    /\ j.emitted[k].signal = "output"
                    /\ \E f \in 1..(k - 1) : j.emitted[f].signal = "finished"})

\* sys.stdout is the emitter while run is inside its try statement, for
\* every thread: esptool.main of the worker writes to it, and so does the
\* esptool.main call of configure on the GUI thread; a print of the GUI
\* thread that has taken sys.stdout before run restored it reaches the
\* emitter after finished, whatever the job has emitted before
MayEmitOutput(j) ==
    \/ Running(j) /\ OutputCount(j) < MaxLines
    \/ j.late_writer /\ cfg_pc = "chip_id" /\ LateOutputCount(j) < MaxLate

\* esptool.main writes to the redirected stdout: the emitter's textWritten
\* makes the worker emit output
EsptoolWorker_output(i) ==
    /\ MayEmitOutput(jobs[i])
    /\ jobs' = [jobs EXCEPT ![i].emitted = Append(@, Signal("output", 0))]
    /\ UNCHANGED <<envVars, portVars, versVars, flash_button_enabled,
                   status_label, flash_error, gui_queue, cfgVars, threadVars>>

\* line 69: the except clause of any other exception prints the error to the
\* emitter; print writes the message and then the newline, which are two
\* output signals
ErrorOutput(o) ==
    IF o.kind = "raise" THEN <<Signal("output", 0), Signal("output", 0)>> ELSE <<>>

\* variant: stop() ends the job
StopEffect_Terminates(j) ==
    [j EXCEPT !.status = "Finished", !.exit_code = 1, !.stop_requested = TRUE]

\* EsptoolWorker.stop is `pass`: the worker is as it was (stop_requested only
\* records that the call was made)
StopEffect(j) == [j EXCEPT !.stop_requested = TRUE]

\* somebody calls stop() on a worker
EsptoolWorker_stop(i) ==
    /\ jobs' = [jobs EXCEPT ![i] = StopEffect(@)]
    /\ UNCHANGED <<envVars, portVars, versVars, flash_button_enabled,
                   status_label, flash_error, gui_queue, cfgVars, threadVars>>

\* EsptoolWorker.run on the worker's thread: esptool.main ends and finished is
\* emitted, queued to the GUI thread
EsptoolWorker_run(i) ==
    /\ Running(jobs[i])
    /\ \E o \in ToolOutcomes :
          /\ jobs' = [jobs EXCEPT
                 ![i].status = "Finished",
                 ![i].exit_code = WorkerExitCode(o),
                 ![i].outcome = o,
                 ![i].late_writer = (cfg_pc = "chip_id"),
                 ![i].emitted = @ \o ErrorOutput(o)
                                  \o <<Signal("finished", WorkerExitCode(o))>>]
          /\ gui_queue' = Append(gui_queue,
                Signal("finished", WorkerExitCode(o)))
    /\ UNCHANGED <<envVars, portVars, versVars, flash_button_enabled,
                   status_label, flash_error, cfgVars>>
    /\ UNCHANGED threadVars

\* finished also runs esptool_worker.deleteLater: the oldest worker that has
\* ended is gone once its signal is delivered
RECURSIVE WithoutFirstFinished(_)
WithoutFirstFinished(js) ==
    IF js = <<>> THEN <<>>
    ELSE IF Head(js).status = "Finished" THEN Tail(js)
    ELSE <<Head(js)>> \o WithoutFirstFinished(Tail(js))

\* the finished signal is delivered: lines 418-426, up to the message box
on_flash_finished ==
    /\ EventLoopRuns
    /\ fin_pc = "none"
    /\ gui_queue # <<>>
    /\ Head(gui_queue).signal = "finished"
    /\ gui_queue' = Tail(gui_queue)
    /\ flash_button_enabled' = TRUE
    /\ status_label' = IF Head(gui_queue).arg = 0
                       THEN "Flashing completed successfully!"
                       ELSE "Flashing failed!"
    /\ fin_pc' = "box"
    /\ jobs' = WithoutFirstFinished(jobs)
    /\ UNCHANGED <<envVars, portVars, versVars, flash_error, cfgVars, monVars,
                   close_pc>>

\* the user closes the message box of on_flash_finished: lines 428-429
on_flash_finished_refresh ==
    /\ fin_pc = "box"
    /\ fin_pc' = "none"
    /\ \E listed \in Comports(os_ports) :
          LET p == RefreshedPorts(listed, port_sel)
          IN  /\ port_items' = p.items
              /\ port_sel' = p.sel
    /\ LET v == RefreshedVersions(disk, version_sel, current_version_files)
       IN  /\ version_items' = v.items
           /\ version_sel' = v.sel
           /\ current_version_files' = v.files
    /\ UNCHANGED <<envVars, jobVars, cfgVars, monVars, close_pc>>

----------------------------------------------------------------------------
(* configure: runs on the GUI thread, one device operation at a time *)

\* what the user can have typed into the two line edits
Ids   == {"7", ""}
Names == {"Sensor-A"}

\* f"signal_id:{id}\n" and f"signal_name:{name}\n"
Command(field, value) == <<field, ":", value, "\n">>

\* one device operation: what was called, with what, and how it ended (code
\* is the exit code when esptool ended by sys.exit(code))
Event(op, arg, result) == [op |-> op, arg |-> arg, result |-> result, code |-> 0]

ConfigFailed == Critical("Failed to configure device", <<>>)

\* the except clause of line 355: the message box is shown and configure is
\* left; ser is not touched
Raised(op, arg) ==
    /\ cfg_trace' = Append(cfg_trace, Event(op, arg, "raise"))
    /\ cfg_dialogs' = Append(cfg_dialogs, ConfigFailed)
    /\ cfg_pc' = "return"

\* the Set Name and ID button, lines 304-311
configure ==
    /\ GuiIdle
    /\ \E id \in Ids, name \in Names : cfg_input' = [id |-> id, name |-> name]
    /\ cfg_trace' = <<>>
    /\ cfg_timeout' = FALSE
    /\ ser' = "none"
    /\ IF port_sel = NoText
       THEN /\ cfg_dialogs' = <<Critical("Please select a COM port.", <<>>)>>
            /\ cfg_pc' = "return"
            /\ UNCHANGED cfg_port
       ELSE /\ cfg_dialogs' = <<>>
            /\ cfg_pc' = "open"
            /\ cfg_port' = SplitFirst(port_sel)
    /\ UNCHANGED <<envVars, portVars, versVars, jobVars>>
    /\ UNCHANGED threadVars

\* ser = serial.Serial(port, 115200, timeout=2)
configure_open ==
    /\ cfg_pc = "open"
    /\ \/ /\ ser' = "open"
          /\ cfg_trace' = Append(cfg_trace, Event("open", <<cfg_port>>, "ok"))
          /\ cfg_pc' = "write_id"
          /\ UNCHANGED cfg_dialogs
       \/ /\ Raised("open", <<cfg_port>>)
          /\ UNCHANGED ser
    /\ UNCHANGED <<envVars, portVars, versVars, jobVars, cfg_port, cfg_input,
                   cfg_timeout>>
    /\ UNCHANGED threadVars

\* ser.write(cmd.encode()), for the ID and then for the name
configure_write ==
    /\ cfg_pc \in {"write_id", "write_name"}
    /\ LET cmd == IF cfg_pc = "write_id"
                  THEN Command("signal_id", cfg_input.id)
                  ELSE Command("signal_name", cfg_input.name)
       IN  \/ /\ cfg_trace' = Append(cfg_trace, Event("write", <<cmd>>, "ok"))
              /\ cfg_pc' = IF cfg_pc = "write_id" THEN "read_id_1" ELSE "read_name_1"
              /\ UNCHANGED cfg_dialogs
           \/ Raised("write", <<cmd>>)
    /\ UNCHANGED <<envVars, portVars, versVars, jobVars, cfg_port, cfg_input, ser,
                   cfg_timeout>>
    /\ UNCHANGED threadVars

\* variant: the name command follows the first ID response
AfterRead_OneIdResponse(pc) ==
    CASE pc = "read_id_1"   -> "write_name"
      [] pc = "read_id_2"   -> "write_name"
      [] pc = "read_name_1" -> "read_name_2"
      [] pc = "read_name_2" -> "close"

\* the statement that follows each of the four readline calls
AfterRead(pc) ==
    CASE pc = "read_id_1"   -> "read_id_2"
      [] pc = "read_id_2"   -> "write_name"
      [] pc = "read_name_1" -> "read_name_2"
      [] pc = "read_name_2" -> "close"

\* response = ser.readline().decode().strip(): a line arrives, or the 2 s
\* timeout passes and readline returns what it has (nothing), or the call
\* raises
configure_readline ==
    /\ cfg_pc \in {"read_id_1", "read_id_2", "read_name_1", "read_name_2"}
    /\ \/ /\ cfg_trace' = Append(cfg_trace, Event("read", <<>>, "ok"))
          /\ \E timed_out \in BOOLEAN : cfg_timeout' = (cfg_timeout \/ timed_out)
          /\ cfg_pc' = AfterRead(cfg_pc)
          /\ UNCHANGED cfg_dialogs
       \/ /\ Raised("read", <<>>)
          /\ UNCHANGED cfg_timeout
    /\ UNCHANGED <<envVars, portVars, versVars, jobVars, cfg_port, cfg_input, ser>>
    /\ UNCHANGED threadVars

\* ser.close()
configure_close ==
    /\ cfg_pc = "close"
    /\ ser' = "closed"
    /\ cfg_trace' = Append(cfg_trace, Event("close", <<>>, "ok"))
    /\ cfg_pc' = "chip_id"
    /\ UNCHANGED <<envVars, portVars, versVars, jobVars, cfg_port, cfg_input,
                   cfg_timeout, cfg_dialogs>>
    /\ UNCHANGED threadVars

\* the message boxes of lines 345-356 for an outcome of esptool.main
ChipIdDialogs(o) ==
    CASE o.kind \in {"exit", "exit_none"} ->
             IF (IF o.kind = "exit_none" THEN 0 ELSE o.code) = 0
             THEN <<Information("Name and ID set successfully!")>>
             ELSE <<Critical("Failed to reset device after configuration.", <<>>)>>
      [] o.kind = "raise"  -> <<ConfigFailed>>
      [] o.kind = "return" -> <<>>

\* esptool.main(argv=esptool_args) with the chip-id arguments; line 336
\* splits the same selected_port_desc again
configure_chip_id ==
    /\ cfg_pc = "chip_id"
    /\ \E o \in ToolOutcomes :
          /\ cfg_trace' = Append(cfg_trace,
                [Event("chip_id", ChipIdArgs(cfg_port), o.kind)
                    EXCEPT !.code = o.code])
          /\ cfg_dialogs' = cfg_dialogs \o ChipIdDialogs(o)
    /\ cfg_pc' = "return"
    /\ jobs' = [i \in 1..Len(jobs) |-> [jobs[i] EXCEPT !.late_writer = FALSE]]
    /\ UNCHANGED <<envVars, portVars, versVars, flash_button_enabled,
                   status_label, flash_error, gui_queue, cfg_port, cfg_input,
                   ser, cfg_timeout>>
    /\ UNCHANGED threadVars

\* configure returns to the event loop (the user has closed its message box,
\* and before it the box of an on_flash_finished that ran while it was open):
\* its locals are gone; a Serial object it did not close is left to the
\* interpreter
configure_return ==
    /\ cfg_pc = "return"
    /\ fin_pc = "none"
    /\ cfg_pc' = "idle"
    /\ cfg_port' = NoText
    /\ cfg_input' = [id |-> "", name |-> ""]
    /\ cfg_timeout' = FALSE
    /\ cfg_trace' = <<>>
    /\ cfg_dialogs' = <<>>
    /\ ser' = IF ser = "open" THEN "open" ELSE "none"
    /\ UNCHANGED <<envVars, portVars, versVars, jobVars>>
    /\ UNCHANGED threadVars

\* the Serial object configure left open is finalized by the interpreter
\* some time after configure has returned
Serial_finalize ==
    /\ cfg_pc = "idle"
    /\ ser = "open"
    /\ ser' = "none"
    /\ UNCHANGED <<envVars, portVars, versVars, jobVars, cfg_pc, cfg_port,
                   cfg_input, cfg_timeout, cfg_trace, cfg_dialogs>>
    /\ UNCHANGED threadVars

----------------------------------------------------------------------------
(* PortMonitor: run is the slot of the monitor thread's started signal *)

\* a device is plugged in, removed, or reported under another description
DeviceChange ==
    /\ \E ports \in PortSets :
          /\ ports # os_ports
          /\ os_ports' = ports
    /\ UNCHANGED <<disk, portVars, versVars, jobVars, cfgVars, threadVars>>

Stopped == ~mon_running

\* the ghost counters move only after stop()
CountAfterStop(field) ==
    IF Stopped THEN [mon_after_stop EXCEPT ![field] = @ + 1] ELSE mon_after_stop

\* variant: the loop does not look at _running
LoopContinues_Always(running) == TRUE

\* line 92: while self._running
LoopContinues(running) == running

PortMonitor_test ==
    /\ mon_pc = "test"
    /\ IF LoopContinues(mon_running)
       THEN /\ mon_pc' = "poll"
            /\ mon_after_stop' = CountAfterStop("cycles")
       ELSE /\ mon_pc' = "done"
            /\ UNCHANGED mon_after_stop
    /\ UNCHANGED <<envVars, portVars, versVars, jobVars, cfgVars, mon_running,
                   previous_ports, mon_last, mon_seen, close_pc, fin_pc>>

PendingPortsChanged ==
    Len(SelectSeq(gui_queue, LAMBDA e : e.signal = "ports_changed"))

\* line 94: what the monitor keeps of an enumeration
Snapshot(ports) == Devices(ports)

\* variant: every enumeration counts as a change
PortsDiffer_Always(ports, previous) == TRUE

\* line 95: if ports != self._previous_ports
PortsDiffer(ports, previous) == ports # previous

\* variant: a failed enumeration counts as no ports
PollFailed_NoPorts(previous) == {}

\* lines 98-100: `except Exception: pass` leaves _previous_ports alone
PollFailed(previous) == previous

\* lines 93-101: one enumeration, the comparison with _previous_ports, the
\* signal, and the sleep of one second (the bound on waiting signals holds
\* back the polls of a running monitor only: after stop() there is one more
\* poll at most)
PortMonitor_poll ==
    /\ mon_pc = "poll"
    /\ PendingPortsChanged < MaxPending \/ Stopped
    /\ mon_pc' = "test"
    /\ \/ /\ mon_last' = "ok"
          /\ mon_seen' = os_ports
          /\ previous_ports' = Snapshot(os_ports)
          /\ IF PortsDiffer(Snapshot(os_ports), previous_ports)
             THEN /\ gui_queue' = Append(gui_queue, Signal("ports_changed", 0))
                  /\ mon_after_stop' =
                        [CountAfterStop("polls") EXCEPT
                            !.emits = IF Stopped THEN @ + 1 ELSE @]
             ELSE /\ mon_after_stop' = CountAfterStop("polls")
                  /\ UNCHANGED gui_queue
       \/ /\ mon_last' = "failed"
          /\ previous_ports' = PollFailed(previous_ports)
          /\ IF PortsDiffer(PollFailed(previous_ports), previous_ports)
             THEN gui_queue' = Append(gui_queue, Signal("ports_changed", 0))
             ELSE UNCHANGED gui_queue
          /\ mon_after_stop' = CountAfterStop("polls")
          /\ UNCHANGED mon_seen
    /\ UNCHANGED <<envVars, portVars, versVars, flash_button_enabled,
                   status_label, flash_error, jobs, cfgVars, mon_running,
                   close_pc, fin_pc>>

\* ports_changed is delivered: its slot is refresh_ports
on_ports_changed ==
    /\ EventLoopRuns
    /\ gui_queue # <<>>
    /\ Head(gui_queue).signal = "ports_changed"
    /\ gui_queue' = Tail(gui_queue)
    /\ \E listed \in Comports(os_ports) :
          LET p == RefreshedPorts(listed, port_sel)
          IN  /\ port_items' = p.items
              /\ port_sel' = p.sel
    /\ UNCHANGED <<envVars, versVars, flash_button_enabled, status_label,
                   flash_error, jobs, cfgVars, threadVars>>

----------------------------------------------------------------------------
(* closeEvent: runs on the GUI thread and waits for the other threads *)

\* lines 291-292: port_monitor.stop() and port_monitor_thread.quit(); the
\* thread leaves its event loop once run has returned
closeEvent ==
    /\ GuiIdle
    /\ mon_running' = FALSE
    /\ close_pc' = "wait_monitor"
    /\ UNCHANGED <<envVars, portVars, versVars, jobVars, cfgVars, mon_pc,
                   previous_ports, mon_last, mon_seen, mon_after_stop, fin_pc>>

\* lines 298-300: the worker's thread is running until the finished signal of
\* its worker has been delivered to the GUI thread
AfterMonitorWait(js) == IF js # <<>> THEN "wait_flash" ELSE "closed"

\* line 293: port_monitor_thread.wait() returns
closeEvent_monitor_waited ==
    /\ close_pc = "wait_monitor"
    /\ mon_pc = "done"
    /\ close_pc' = AfterMonitorWait(jobs)
    /\ UNCHANGED <<envVars, portVars, versVars, jobVars, cfgVars, monVars,
                   fin_pc>>

\* line 300: esptool_thread.wait() returns once run has returned and the
\* thread has seen the quit(); then super().closeEvent(event)
closeEvent_flash_waited ==
    /\ close_pc = "wait_flash"
    /\ ~FlashRunning
    /\ close_pc' = "closed"
    /\ UNCHANGED <<envVars, portVars, versVars, jobVars, cfgVars, monVars,
                   fin_pc>>

----------------------------------------------------------------------------
(* Specifications *)

Next ==
    \/ PortsChange
    \/ DiskChange
    \/ refresh_ports
    \/ refresh_versions
    \/ select_port
    \/ on_version_changed
    \/ flash_esp32
    \/ \E i \in 1..Len(jobs) : EsptoolWorker_run(i)
    \/ on_flash_finished
    \/ on_flash_finished_refresh
    \/ configure
    \/ configure_open
    \/ configure_write
    \/ configure_readline
    \/ configure_close
    \/ configure_chip_id
    \/ configure_return
    \/ Serial_finalize

Spec == Init /\ [][Next]_vars

\* The catalogue specification: the application starts on any disk of
\* CatalogDisks and with any ports connected; the user selects and flashes
InitFiles ==
    /\ os_ports \in SUBSET PortInfos
    /\ disk \in CatalogDisks
    /\ InitGui

NextFiles ==
    \/ select_port
    \/ on_version_changed
    \/ flash_esp32
    \/ \E i \in 1..Len(jobs) : EsptoolWorker_run(i)
    \/ on_flash_finished
    \/ on_flash_finished_refresh

SpecFiles == InitFiles /\ [][NextFiles]_vars

\* The scan specification: the application starts on any disk of IsScanDisk
\* and the user goes from one version to the other
InitScan ==
    /\ os_ports = {}
    /\ IsScanDisk(disk)
    /\ InitGui

NextScan == on_version_changed

SpecScan == InitScan /\ [][NextScan]_vars

\* The monitor specification: devices come and go while the monitor polls,
\* the GUI thread refreshes the port list, and the window is closed
InitMonitor ==
    /\ os_ports \in PortSets
    /\ disk \in SessionDisks
    /\ InitGui

NextMonitor ==
    \/ DeviceChange
    \/ PortMonitor_test
    \/ PortMonitor_poll
    \/ on_ports_changed
    \/ select_port
    \/ closeEvent
    \/ closeEvent_monitor_waited

SpecMonitor == InitMonitor /\ [][NextMonitor]_vars

\* the monitor thread is scheduled again and again (comports() and
\* time.sleep(1) return), and the GUI thread goes on when the wait of
\* closeEvent can return
SpecMonitorFair ==
    /\ SpecMonitor
    /\ WF_vars(PortMonitor_test)
    /\ WF_vars(PortMonitor_poll)
    /\ WF_vars(closeEvent_monitor_waited)

\* The job specification: a complete version is on disk; the user flashes,
\* the worker writes output and ends, and the window is closed
InitJob ==
    /\ os_ports \in SUBSET PortInfos
    /\ disk \in {d \in SessionDisks : Len(d["v1"].entries) = 4}
    /\ InitGui

NextJob ==
    \/ on_version_changed
    \/ flash_esp32
    \/ \E i \in 1..Len(jobs) : EsptoolWorker_output(i)
    \/ \E i \in 1..Len(jobs) : EsptoolWorker_stop(i)
    \/ \E i \in 1..Len(jobs) : EsptoolWorker_run(i)
    \/ on_flash_finished
    \/ on_flash_finished_refresh
    \/ PortMonitor_test
    \/ PortMonitor_poll
    \/ on_ports_changed
    \/ closeEvent
    \/ closeEvent_monitor_waited
    \/ closeEvent_flash_waited

SpecJob == InitJob /\ [][NextJob]_vars

\* The overlap specification: both devices are connected and a complete
\* version is on disk; the user flashes and configures, and the tools write
\* output
InitOverlap ==
    /\ os_ports = PortInfos
    /\ disk \in {d \in SessionDisks : Len(d["v1"].entries) = 4}
    /\ InitGui

NextOverlap ==
    \/ select_port
    \/ flash_esp32
    \/ \E i \in 1..Len(jobs) : EsptoolWorker_output(i)
    \/ \E i \in 1..Len(jobs) : EsptoolWorker_run(i)
    \/ on_flash_finished
    \/ on_flash_finished_refresh
    \/ configure
    \/ configure_open
    \/ configure_write
    \/ configure_readline
    \/ configure_close
    \/ configure_chip_id
    \/ configure_return
    \/ Serial_finalize

SpecOverlap == InitOverlap /\ [][NextOverlap]_vars

----------------------------------------------------------------------------
(* Properties *)

AllRoles == Range(required_files)

Complete(files) == Keys(files) = AllRoles

\* the selection passes every validation of flash_esp32
ValidSelection ==
    /\ port_sel # NoText
    /\ version_sel # NoVersion
    /\ Complete(current_version_files)

\* C1: at most one flash job is Running at any time; while one is Running no
\* start-flash request is accepted (the slot cannot be entered), no worker is
\* added, and the running job keeps its argument list until it ends by itself.
C1_OneFlashJob ==
    /\ [](/\ Cardinality(RunningJobs) <= 1
          /\ FlashRunning => ~ENABLED flash_esp32)
    /\ [][\A i \in RunningJobs :
            /\ Len(jobs') = Len(jobs)
            /\ jobs'[i].args = jobs[i].args
            /\ jobs'[i].status \in {"Running", "Finished"}
            /\ Running(jobs'[i]) \/ gui_queue' # gui_queue]_vars

\* C1 witness: a job is Running while the selection would pass validation
C1_Witness ==
    /\ FlashRunning
    /\ GuiIdle
    /\ ValidSelection

\* configure holds the serial port: it has opened it and not closed it
ConfigureHoldsPort == cfg_pc # "idle" /\ ser = "open"

\* C2: the serial port has one owner at a time: configure never holds the port
\* open while a flash job is Running.
C2_PortExclusive == ~(FlashRunning /\ ConfigureHoldsPort)

\* C3: when configure is about to return, whatever happened after the open,
\* the port it opened is closed.
C3_PortClosedOnExit == cfg_pc = "return" => ser # "open"

\* the device operations of a configure call on `port` with `input`, in the
\* order the protocol prescribes
ExpectedOps(port, input) ==
    << [op |-> "open",    arg |-> <<port>>],
       [op |-> "write",   arg |-> <<Command("signal_id", input.id)>>],
       [op |-> "read",    arg |-> <<>>],
       [op |-> "read",    arg |-> <<>>],
       [op |-> "write",   arg |-> <<Command("signal_name", input.name)>>],
       [op |-> "read",    arg |-> <<>>],
       [op |-> "read",    arg |-> <<>>],
       [op |-> "close",   arg |-> <<>>],
       [op |-> "chip_id", arg |-> ChipIdArgs(port)] >>

Ops(trace) == [i \in 1..Len(trace) |-> [op |-> trace[i].op, arg |-> trace[i].arg]]

\* the configure call in progress has met no failure so far
NoFailureSoFar ==
    /\ cfg_pc # "idle"
    /\ ~cfg_timeout
    /\ \A i \in 1..Len(cfg_trace) : cfg_trace[i].result # "raise"
    /\ \A i \in 1..Len(cfg_dialogs) : cfg_dialogs[i].icon # "critical"

ChipIdCalled == \E i \in 1..Len(cfg_trace) : cfg_trace[i].op = "chip_id"

\* C7: a configure call that meets no failure does open, write signal_id,
\* read, read, write signal_name, read, read, close, chip-id, in this order
\* and nothing else; the chip-id check runs only with the port closed, and a
\* call that returns without failure has done all nine steps.
C7_ConfigureOrder ==
    NoFailureSoFar =>
        /\ IsPrefix(Ops(cfg_trace), ExpectedOps(cfg_port, cfg_input))
        /\ cfg_pc = "chip_id" \/ ChipIdCalled => ser = "closed"
        /\ cfg_pc = "return" => Len(cfg_trace) = Len(ExpectedOps(cfg_port, cfg_input))

\* C7 witness: a configure call is about to return after all nine steps,
\* without failure
C7_Witness ==
    /\ NoFailureSoFar
    /\ cfg_pc = "return"
    /\ ChipIdCalled
    /\ Len(cfg_dialogs) = 1

\* the four failure conditions of configure, as far as this call has met them
OpenFailed  == \E i \in 1..Len(cfg_trace) :
                   cfg_trace[i].op = "open" /\ cfg_trace[i].result = "raise"
WriteFailed == \E i \in 1..Len(cfg_trace) :
                   cfg_trace[i].op = "write" /\ cfg_trace[i].result = "raise"
ChipIdNonZero == \E i \in 1..Len(cfg_trace) :
                   /\ cfg_trace[i].op = "chip_id"
                   /\ cfg_trace[i].result = "exit"
                   /\ cfg_trace[i].code # 0

SignaledFailure == \E i \in 1..Len(cfg_dialogs) : cfg_dialogs[i].icon = "critical"
SignaledSuccess == \E i \in 1..Len(cfg_dialogs) : cfg_dialogs[i].icon = "information"

\* C8: each failure condition of configure (open failure, write failure, read
\* timeout, non-zero chip-id status) ends the call with a failure outcome and
\* no success; after a read timeout the call does nothing more than report.
C8_FailuresSurface ==
    /\ cfg_pc = "return" /\ (OpenFailed \/ WriteFailed \/ cfg_timeout \/ ChipIdNonZero)
           => SignaledFailure /\ ~SignaledSuccess
    /\ cfg_timeout => cfg_pc = "return"

\* the status the chip-id call ended with: 0 for sys.exit(0), sys.exit() and
\* a normal return, the code of sys.exit(code), 1 for any other exception
ChipIdStatus ==
    LET e == cfg_trace[CHOOSE i \in 1..Len(cfg_trace) : cfg_trace[i].op = "chip_id"]
    IN  CASE e.result = "exit"  -> e.code
          [] e.result = "raise" -> 1
          [] OTHER              -> 0

\* C9: a configure call that made the chip-id call returns having signaled
\* exactly one result: success if the call ended with status 0, failure
\* otherwise.
C9_OneResult ==
    cfg_pc = "return" /\ ChipIdCalled =>
        /\ Len(cfg_dialogs) = 1
        /\ SignaledSuccess <=> ChipIdStatus = 0

\* C10: the step that completes an action (configure returning after it
\* reached the device, or on_flash_finished returning) leaves port_combo and
\* version_combo showing what the OS and the disk hold at that moment.
C10_RefreshAfterAction ==
    [][ \/ cfg_pc = "return" /\ cfg_pc' = "idle" /\ cfg_trace # <<>>
        \/ fin_pc = "box" /\ fin_pc' = "none"
        => /\ \E listed \in Comports(os_ports') : port_items' = PortList(listed)
           /\ version_items' = ListVersions(disk') ]_vars

\* a flash_esp32 step that started a job
FlashStarted ==
    /\ flash_esp32
    /\ Len(jobs') = Len(jobs) + 1
    /\ Running(jobs'[Len(jobs')])

\* C4: flash_esp32 starts a job if and only if a port is selected, a version
\* is selected and current_version_files holds all four roles; a call that is
\* rejected starts nothing and changes neither the selection nor the jobs.
C4_FlashIffComplete ==
    [][flash_esp32 =>
         /\ FlashStarted <=> ValidSelection
         /\ ~FlashStarted =>
               UNCHANGED <<portVars, versVars, jobs, gui_queue,
                           flash_button_enabled, status_label>>
         /\ ~FlashStarted => flash_error' # NoDialog]_vars

\* C4 witness: flash_esp32 was rejected because exactly one role is missing
\* from an otherwise valid selection
C4_Witness ==
    /\ port_sel # NoText
    /\ version_sel # NoVersion
    /\ Cardinality(Keys(current_version_files)) = 3
    /\ flash_error.text = "missing required files"
    /\ Range(flash_error.names) = AllRoles \ Keys(current_version_files)
    /\ jobs = <<>>

\* C5: when flash_esp32 rejects a selection whose port and version are set
\* but whose file set is incomplete, the message names exactly the missing
\* roles.
C5_NamesMissingRoles ==
    [][flash_esp32 /\ port_sel # NoText /\ version_sel # NoVersion
                   /\ ~Complete(current_version_files)
         => Range(flash_error'.names) = AllRoles \ Keys(current_version_files)]_vars

\* the flash layout: address and role of each region
Layout ==
    << [address |-> S("0x0"),     role |-> "bootloader"],
       [address |-> S("0x8000"),  role |-> "partition"],
       [address |-> S("0xe000"),  role |-> "ota_data"],
       [address |-> S("0x10000"), role |-> "app"] >>

\* int(text, 16) for the addresses of the layout
HexValue(text) ==
    CASE text = S("0x0")     -> 0
      [] text = S("0x8000")  -> 32768
      [] text = S("0xe000")  -> 57344
      [] text = S("0x10000") -> 65536

\* what follows the options in an argument list
Regions(args) == SubSeq(args, Len(FlashOptions(NoText)) + 1, Len(args))

\* C6: the argument list of every write job ends with exactly four
\* address/file pairs, 0x0 bootloader, 0x8000 partition, 0xe000 ota_data,
\* 0x10000 app in this order, each file being the one of that role in the
\* file set the job was started from, the addresses strictly ascending.
C6_FixedLayout ==
    [][FlashStarted =>
         LET r == Regions(jobs'[Len(jobs')].args)
         IN  /\ Len(r) = 2 * Len(Layout)
             /\ \A k \in 1..Len(Layout) :
                   /\ r[2 * k - 1] = Layout[k].address
                   /\ r[2 * k] = Get(current_version_files, Layout[k].role)
                   /\ RoleKey(Basename(r[2 * k])) = Layout[k].role
             /\ \A k \in 1..(Len(Layout) - 1) :
                   HexValue(r[2 * k - 1]) < HexValue(r[2 * k + 1])]_vars

\* C6 witness: a job is Running that was started from a file set stored in
\* another order than the layout's
C6_Witness ==
    /\ FlashRunning
    /\ Complete(current_version_files)
    /\ [i \in 1..Len(current_version_files) |-> current_version_files[i].key]
           # required_files
    /\ \A k \in 1..Len(Layout) :
          Regions(jobs[Len(jobs)].args)[2 * k]
              = Get(current_version_files, Layout[k].role)

----------------------------------------------------------------------------
(* Properties of PortMonitor *)

\* the monitor thread makes one pass of lines 93-101, and comports()
\* returned / raised
PollStep == mon_pc = "poll" /\ mon_pc' = "test"
PollSucceeds == PollStep /\ mon_last' = "ok"
PollFails == PollStep /\ mon_last' = "failed"

\* ports_changed signals this step emits
Emitted == PendingPortsChanged' - PendingPortsChanged

\* C11: the baseline is empty at the start; a successful poll emits exactly
\* one ports_changed signal if the set of devices it polled differs from the
\* baseline the previous poll left and none if it is the same set, and the
\* polled set is the baseline afterwards.
C11_EmitIffChanged ==
    /\ previous_ports = {}
    /\ [][PollSucceeds =>
            /\ Emitted = IF Devices(os_ports) # previous_ports THEN 1 ELSE 0
            /\ previous_ports' = Devices(os_ports)]_vars

\* C11 witness: two devices were polled, the last poll found the set of the
\* poll before it, and the one signal of the earlier change is still waiting
C11_Witness ==
    /\ mon_last = "ok"
    /\ mon_pc = "test"
    /\ previous_ports = Devices(os_ports)
    /\ Cardinality(previous_ports) = 2
    /\ PendingPortsChanged = 1

\* C12: the monitor compares snapshots by device and description: a successful
\* poll that returns the devices of the previous successful poll, one of them
\* under another description, emits a ports_changed signal.
C12_DescriptionsCompared ==
    [][(/\ PollSucceeds
        /\ Devices(os_ports) = Devices(mon_seen)
        /\ os_ports # mon_seen) => Emitted = 1]_vars

\* C13: a poll whose enumeration fails is absorbed as no change: it emits no
\* signal, leaves the baseline (always the devices of the last successful
\* poll) as it was and does not end the loop; the successful poll after it
\* that returns the devices of the last successful poll emits nothing.
C13_FailedPollAbsorbed ==
    /\ [](previous_ports = Devices(mon_seen))
    /\ [][PollFails =>
            /\ Emitted = 0
            /\ previous_ports' = previous_ports
            /\ mon_running' = mon_running
            /\ mon_pc' # "done"]_vars
    /\ [][(/\ PollSucceeds
            /\ mon_last = "failed"
            /\ Devices(os_ports) = Devices(mon_seen)) => Emitted = 0]_vars

\* C13 witness: the last poll failed while the devices connected were not
\* those of the baseline, and no signal is waiting
C13_Witness ==
    /\ mon_last = "failed"
    /\ mon_pc = "test"
    /\ mon_running
    /\ previous_ports # {}
    /\ Devices(os_ports) # previous_ports
    /\ PendingPortsChanged = 0

----------------------------------------------------------------------------
(* Properties of the flash job *)

\* stop() is called on worker i in this step
StopRequested(i) ==
    /\ i <= Len(jobs')
    /\ ~jobs[i].stop_requested
    /\ jobs'[i].stop_requested

\* C14: a Running job leaves Running only when its esptool.main call ends by
\* itself; a stop() on the worker or a step of closeEvent leaves the job
\* Running with its arguments and what it has emitted, and closeEvent has
\* returned only when no job is Running.
C14_OnlyNaturalTermination ==
    /\ [][\A i \in RunningJobs :
            \/ /\ i <= Len(jobs')
               /\ Running(jobs'[i])
               /\ jobs'[i].args = jobs[i].args
            \/ EsptoolWorker_run(i)]_vars
    /\ [][\A i \in RunningJobs :
            (StopRequested(i) \/ close_pc' # close_pc) =>
                /\ Running(jobs'[i])
                /\ jobs'[i].emitted = jobs[i].emitted]_vars
    /\ [](close_pc = "closed" => ~FlashRunning)

\* C14 witness: stop() has been called on the Running worker and closeEvent
\* is waiting for its thread
C14_Witness ==
    /\ close_pc = "wait_flash"
    /\ \E i \in RunningJobs : jobs[i].stop_requested

Ended(j) == j.status = "Finished"

\* the exit status of a tool call: the code it exited with, 0 for an exit
\* without a code or a plain return, 1 for any other exception
ToolStatus(o) ==
    CASE o.kind = "exit"      -> o.code
      [] o.kind = "exit_none" -> 0
      [] o.kind = "return"    -> 0
      [] o.kind = "raise"     -> 1

FinishedSignals(j) == SelectSeq(j.emitted, LAMBDA e : e.signal = "finished")

\* the finished signal is delivered to on_flash_finished in this step
FinishedDelivered ==
    /\ gui_queue # <<>>
    /\ Head(gui_queue).signal = "finished"
    /\ gui_queue' = Tail(gui_queue)

\* C15: a job is Running and then ended, for good. While it runs it has not
\* emitted finished; once ended it has emitted finished exactly once, as the
\* last of its signals, with the exit status of the tool call (0 for an exit
\* without code, 1 for any other exception); an ended job emits nothing more
\* and does not run again, and it is reported as succeeded if and only if
\* that status is 0.
C15_JobLifecycle ==
    /\ [](\A i \in 1..Len(jobs) :
            /\ jobs[i].status \in {"Running", "Finished"}
            /\ Running(jobs[i]) => FinishedSignals(jobs[i]) = <<>>
            /\ Ended(jobs[i]) =>
                  /\ jobs[i].exit_code = ToolStatus(jobs[i].outcome)
                  /\ FinishedSignals(jobs[i]) =
                        <<Signal("finished", jobs[i].exit_code)>>
                  /\ jobs[i].emitted[Len(jobs[i].emitted)].signal = "finished")
    /\ [][\A i \in 1..Len(jobs) :
            Ended(jobs[i]) =>
                \/ FinishedDelivered /\ jobs' = WithoutFirstFinished(jobs)
                \/ /\ i <= Len(jobs')
                   /\ Ended(jobs'[i])
                   /\ jobs'[i].emitted = jobs[i].emitted
                   /\ jobs'[i].exit_code = jobs[i].exit_code]_vars
    /\ [][FinishedDelivered =>
            (status_label' = "Flashing completed successfully!"
                <=> Head(gui_queue).arg = 0)]_vars

----------------------------------------------------------------------------
(* Properties of failure handling *)

\* on_flash_finished returns, having run for a job that ended with a
\* non-zero status
FlashFailureHandled ==
    fin_pc = "box" /\ fin_pc' = "none" /\ status_label = "Flashing failed!"

\* a device operation of this configure call raised, or chip-id ended with a
\* non-zero status
ConfigureFailed ==
    \/ \E i \in 1..Len(cfg_trace) : cfg_trace[i].result = "raise"
    \/ ChipIdNonZero

\* configure returns from a call that failed
ConfigureFailureHandled == cfg_pc = "return" /\ cfg_pc' = "idle" /\ ConfigureFailed

\* C16: when a flash job has ended with a non-zero status and its finished
\* signal has been handled, or a configure call that failed has returned, no
\* operation is active and none was started by the handling; the selected port
\* and version are the ones selected before if they are still there; and a
\* start-flash request with a valid selection is accepted.
C16_FailureReturnsToIdle ==
    [][(FlashFailureHandled \/ ConfigureFailureHandled) =>
        /\ ~FlashRunning'
        /\ cfg_pc' = "idle"
        /\ Len(jobs') <= Len(jobs)
        /\ port_sel \in {PortText(p) : p \in os_ports} => port_sel' = port_sel
        /\ version_sel \in Range(ListVersions(disk)) => version_sel' = version_sel
        /\ ValidSelection' => flash_button_enabled']_vars

\* the positions of configure at which the GUI thread is inside a call to
\* the serial device or to esptool
DeviceSteps ==
    {"open", "write_id", "read_id_1", "read_id_2", "write_name", "read_name_1",
     "read_name_2", "chip_id"}

\* the device operations in progress and the thread each one runs on
OperationsInProgress ==
    {[op |-> "write_flash", thread |-> "worker"] : i \in RunningJobs}
        \cup {[op |-> cfg_pc, thread |-> "gui"] : pc \in {cfg_pc} \cap DeviceSteps}

\* C17: the GUI thread never blocks on a device operation: every serial open,
\* write and read and every esptool call (write_flash and chip-id) runs on
\* another thread.
C17_ControlNeverBlocks ==
    \A o \in OperationsInProgress : o.thread # "gui"

----------------------------------------------------------------------------
(* Properties of the file scan *)

\* the entries of the selected version directory, as os.listdir returns them
SelectedListing ==
    IF version_sel \in Versions /\ IsDir(disk[version_sel])
    THEN disk[version_sel].entries
    ELSE <<>>

\* a regular file whose name ends in .bin
IsImage(e) == e.isfile /\ e.name[Len(e.name)] = ".bin"

\* the name holds the substring, whatever the case of its letters
Mentions(e, sub) == \E i \in 1..Len(e.name) : Lower(e.name[i]) = sub

\* the role the precedence bootloader, partition, boot_app0, application
\* gives an image
RoleByPrecedence(e) ==
    CASE Mentions(e, "bootloader") -> "bootloader"
      [] ~Mentions(e, "bootloader") /\ Mentions(e, "partition") -> "partition"
      [] /\ ~Mentions(e, "bootloader")
         /\ ~Mentions(e, "partition")
         /\ Mentions(e, "boot_app0") -> "ota_data"
      [] OTHER -> "app"

\* C18: the files resolved for the selected version are those of its
\* directory and of nothing else: every regular file ending in .bin has its
\* role by the precedence bootloader, partition, boot_app0, application
\* (substrings found in any case) and that role is resolved; every resolved
\* role holds the path of such a file of the selected directory, so that
\* other files give no role and no role is left from the version selected
\* before.
C18_ClassifiedByPrecedence ==
    /\ \A e \in Range(SelectedListing) :
          IsImage(e) => Has(current_version_files, RoleByPrecedence(e))
    /\ \A r \in Keys(current_version_files) :
          \E e \in Range(SelectedListing) :
              /\ IsImage(e)
              /\ RoleByPrecedence(e) = r
              /\ Get(current_version_files, r) = FilePath(version_sel, e.name)

\* C18 witness: the user went from v1 to v2; v2 holds the image whose name
\* has both substrings in upper case and a file that is no image; the only
\* role resolved is bootloader, and the role of v1 is gone
C18_Witness ==
    /\ version_sel = "v2"
    /\ ResolveFiles(disk, "v1") # <<>>
    /\ ~Has(ResolveFiles(disk, "v1"), "bootloader")
    /\ MixedCaseBin \in Range(SelectedListing)
    /\ \E e \in Range(SelectedListing) : ~IsImage(e)
    /\ Keys(current_version_files) = {"bootloader"}

\* every order in which os.listdir can return the entries of a listing
Orders(listing) ==
    {o \in DistinctSeqs(Range(listing), Len(listing)) : Len(o) = Len(listing)}

\* what on_version_changed resolves when the selected directory is listed in
\* the given order, as a set of role/path pairs
ResolvedIn(order) ==
    Range(ResolveFiles([disk EXCEPT ![version_sel].entries = order], version_sel))

\* the positions in the selected listing of the images of a role
Candidates(r) ==
    {i \in 1..Len(SelectedListing) :
        IsImage(SelectedListing[i]) /\ RoleByPrecedence(SelectedListing[i]) = r}

Last(positions) == CHOOSE i \in positions : \A j \in positions : j <= i

\* the path resolved for role r is the one of its candidate listed last
LastWins(r) ==
    Get(current_version_files, r) =
        FilePath(version_sel, SelectedListing[Last(Candidates(r))].name)

OrderIndependent ==
    \A o \in Orders(SelectedListing) : ResolvedIn(o) = Range(current_version_files)

\* C19 as stated: if at most one file of the selected directory classifies as
\* application, every enumeration order resolves the same files; if several
\* do, the application file is the one enumerated last.
C19_OrderMattersForAppOnly ==
    SelectedListing # <<>> =>
        /\ Cardinality(Candidates("app")) <= 1 => OrderIndependent
        /\ Cardinality(Candidates("app")) > 1 => LastWins("app")

\* C19 amended: if every role has at most one candidate in the selected
\* directory, every enumeration order resolves the same files; a role with
\* several candidates, application or not, resolves to the one enumerated
\* last.
C19_OrderMattersForDuplicates ==
    SelectedListing # <<>> =>
        /\ (\A r \in AllRoles : Cardinality(Candidates(r)) <= 1) => OrderIndependent
        /\ \A r \in AllRoles : Candidates(r) # {} => LastWins(r)

\* C19 witness: the user went from v1 to v2, which lists firmware.bin and
\* then app_v2.bin; the application resolved is app_v2.bin, and the other
\* order would resolve firmware.bin
C19_Witness ==
    /\ version_sel = "v2"
    /\ IsDir(disk["v1"])
    /\ Cardinality(Candidates("app")) = 2
    /\ Get(current_version_files, "app") = FilePath(version_sel, SecondAppBin.name)
    /\ ~OrderIndependent

----------------------------------------------------------------------------
(* Termination of the monitor *)

\* C20: after stop() the monitor passes the loop test no more: it finishes
\* the pass in progress, with one more enumeration and one more ports_changed
\* signal at most, and ends; the wait of closeEvent on the monitor thread
\* returns, whether that enumeration succeeds or fails.
C20_MonitorStops ==
    /\ [](/\ mon_after_stop.cycles = 0
          /\ mon_after_stop.polls <= 1
          /\ mon_after_stop.emits <= 1)
    /\ (close_pc = "wait_monitor") ~> (mon_pc = "done" /\ close_pc = "closed")

\* C20 witness: stop() came in the middle of a pass, which enumerated the
\* ports and emitted a signal; the loop has ended and closeEvent has returned
C20_Witness ==
    /\ mon_pc = "done"
    /\ close_pc = "closed"
    /\ mon_after_stop = [cycles |-> 0, polls |-> 1, emits |-> 1]

====
